---------------------------- MODULE Spec2Model ----------------------------
(***************************************************************************)
(* Feedback alignment notebook (Feedback Alignment-checkpoint.ipynb).      *)
(*                                                                         *)
(* The notebook runs two experiments, each a training loop over epochs and *)
(* mini-batches of a two-layer network h = f(W0 x), y = f(W h):            *)
(*   - the linear experiment (f the identity) on synthetic data y* = T x,  *)
(*   - the non-linear experiment (f = sigma) on a labelled image data set  *)
(*     read through a shuffling, batching loader.                          *)
(* W is trained with the backprop step e h^T, W0 with the feedback         *)
(* alignment step (B e) x^T, B a fixed random matrix.                      *)
(*                                                                         *)
(* numpy's float64 values are modelled as exact rationals <<n, d>> in      *)
(* lowest terms (d > 0).  Numerators and denominators are kept below       *)
(* MaxMag; a value that would leave that range becomes OVF, and a step     *)
(* whose results contain OVF is not taken (the model stops at its          *)
(* precision horizon, the program does not).                               *)
(***************************************************************************)
EXTENDS Integers, Sequences, FiniteSets

(***************************************************************************)
(* Bounds of the model and program constants.                              *)
(***************************************************************************)
\* linear experiment: shapes (30 x 20 x 10 in the notebook)
DimIn == 2
DimHid == 2
DimOut == 1
\* range(num_epochs): the notebook runs 1000 epochs
num_epochs == 2
\* non-linear experiment: shapes (784 x 1000 x 10 in the notebook), size of the
\* image data set (60000) and the loader's batch size (20)
NlDimIn == 2
NlDimHid == 2
NlClasses == 2
NlSamples == 4
nl_batch_size == 2
\* largest numerator / denominator the model represents
MaxMag == 1000000000

\* num_inputs = 100
num_inputs == 100
\* batch_size = 20 (linear experiment)
batch_size == 20
\* eta = 0.1
eta == <<1, 10>>
\* test_size = 0.25
test_size == <<1, 4>>

(***************************************************************************)
(* Rational arithmetic (the float64 scalars of numpy).                     *)
(***************************************************************************)
Abs(n) == IF n < 0 THEN -n ELSE n

RECURSIVE GCD(_, _)
GCD(a, b) == IF b = 0 THEN a ELSE GCD(b, a % b)

OVF == <<0, 0>>
Zero == <<0, 1>>
One == <<1, 1>>
Half == <<1, 2>>
Rat(n) == <<n, 1>>
IsOVF(a) == a[2] = 0

\* n / d in lowest terms, d > 0
Norm(n, d) == LET g == GCD(Abs(n), d) IN <<n \div g, d \div g>>

\* does p * q stay within MaxMag (p, q >= 0)
FitsMul(p, q) == q = 0 \/ p <= MaxMag \div q

RMul(a, b) ==
    IF IsOVF(a) \/ IsOVF(b) THEN OVF
    ELSE IF a[1] = 0 \/ b[1] = 0 THEN Zero
    ELSE LET g1 == GCD(Abs(a[1]), b[2])
             g2 == GCD(Abs(b[1]), a[2])
             n1 == a[1] \div g1
             n2 == b[1] \div g2
             d1 == a[2] \div g2
             d2 == b[2] \div g1
         IN  IF FitsMul(Abs(n1), Abs(n2)) /\ FitsMul(d1, d2)
             THEN <<n1 * n2, d1 * d2>>
             ELSE OVF

RNeg(a) == <<-a[1], a[2]>>

RAdd(a, b) ==
    IF IsOVF(a) \/ IsOVF(b) THEN OVF
    ELSE IF a[1] = 0 THEN b
    ELSE IF b[1] = 0 THEN a
    ELSE IF a[2] = b[2]
    THEN (IF Abs(a[1] + b[1]) <= MaxMag THEN Norm(a[1] + b[1], a[2]) ELSE OVF)
    ELSE LET g == GCD(a[2], b[2])
             da == a[2] \div g
             db == b[2] \div g
         IN  IF FitsMul(Abs(a[1]), db) /\ FitsMul(Abs(b[1]), da) /\ FitsMul(da, b[2])
             THEN LET n == a[1] * db + b[1] * da
                  IN  IF Abs(n) <= MaxMag THEN Norm(n, da * b[2]) ELSE OVF
             ELSE OVF

RSub(a, b) == RAdd(a, RNeg(b))

\* a < b; FALSE when the difference is out of range
RLess(a, b) == LET d == RSub(a, b) IN ~IsOVF(d) /\ d[1] < 0

(***************************************************************************)
(* Matrices (numpy 2-d arrays): a sequence of rows, M[r][c].               *)
(***************************************************************************)
Rows(M) == Len(M)
Cols(M) == IF Len(M) = 0 THEN 0 ELSE Len(M[1])

\* M itself; the comparison makes TLC compute the entries once instead of
\* every time one is read
Eval(M) == IF M = M THEN M ELSE M

RECURSIVE DotRange(_, _, _, _, _, _)
\* SUM over j in lo..hi of A[r][j] * Bm[j][c]
DotRange(A, Bm, r, c, lo, hi) ==
    IF lo > hi THEN Zero
    ELSE IF lo = hi THEN RMul(A[r][lo], Bm[lo][c])
    ELSE LET mid == (lo + hi) \div 2
         IN  RAdd(DotRange(A, Bm, r, c, lo, mid), DotRange(A, Bm, r, c, mid + 1, hi))

\* A @ Bm
MatMul(A, Bm) ==
    Eval([r \in 1..Rows(A) |-> [c \in 1..Cols(Bm) |-> DotRange(A, Bm, r, c, 1, Cols(A))]])

\* A.T
Transpose(A) == Eval([c \in 1..Cols(A) |-> [r \in 1..Rows(A) |-> A[r][c]]])

\* A + Bm, A - Bm, s * A, elementwise A * Bm
MatAdd(A, Bm) == Eval([r \in 1..Rows(A) |-> [c \in 1..Cols(A) |-> RAdd(A[r][c], Bm[r][c])]])
MatSub(A, Bm) == Eval([r \in 1..Rows(A) |-> [c \in 1..Cols(A) |-> RSub(A[r][c], Bm[r][c])]])
MatScale(s, A) == Eval([r \in 1..Rows(A) |-> [c \in 1..Cols(A) |-> RMul(s, A[r][c])]])
MatHad(A, Bm) == Eval([r \in 1..Rows(A) |-> [c \in 1..Cols(A) |-> RMul(A[r][c], Bm[r][c])]])

ZeroMat(r, c) == [a \in 1..r |-> [b \in 1..c |-> Zero]]

\* columns lo..hi of A (A[:, lo-1:hi])
ColSlice(A, lo, hi) == Eval([r \in 1..Rows(A) |-> [c \in 1..(hi - lo + 1) |-> A[r][lo + c - 1]]])

\* A[:, idx] for a sequence of column indices
ColTake(A, idx) == Eval([r \in 1..Rows(A) |-> [c \in 1..Len(idx) |-> A[r][idx[c]]]])

RECURSIVE SumSqRange(_, _, _)
\* SUM of the squares of entries lo..hi of A, read row by row
SumSqRange(A, lo, hi) ==
    IF lo > hi THEN Zero
    ELSE IF lo = hi
    THEN LET r == ((lo - 1) \div Cols(A)) + 1
             c == ((lo - 1) % Cols(A)) + 1
         IN  RMul(A[r][c], A[r][c])
    ELSE LET mid == (lo + hi) \div 2
         IN  RAdd(SumSqRange(A, lo, mid), SumSqRange(A, mid + 1, hi))

\* np.square(np.linalg.norm(A)): the squared Frobenius norm
SqNorm(A) == SumSqRange(A, 1, Rows(A) * Cols(A))

MatHasOVF(A) == \E r \in 1..Rows(A) : \E c \in 1..Cols(A) : IsOVF(A[r][c])

(***************************************************************************)
(* Inputs.  np.random draws are choices from small sets of seeds; every    *)
(* value lies in the range the notebook draws it from.                     *)
(***************************************************************************)
TSeeds == {0, 1, 2}
W0Seeds == {0, 1}
WSeeds == {0, 1, 2}
BSeeds == {0, 1, 2}
DataSeeds == {1, 2}
ShuffleSeeds == {0, 1}

\* T = np.random.uniform(low=-1.0, high=1.0, size=(10, 30))
DrawT(s) ==
    [r \in 1..DimOut |-> [c \in 1..DimIn |->
        IF s = 0 THEN Zero
        ELSE IF s = 1 THEN (IF (r + c) % 2 = 0 THEN <<-1, 1>> ELSE Half)
        ELSE (IF (r + c) % 2 = 0 THEN Half ELSE <<-1, 2>>)]]

\* x_data = np.random.randn(30, num_inputs): column j is +-m times a unit
\* vector, direction and m repeating with period 5, so that every window of
\* 75 consecutive samples has the same second moments
DrawX(s) ==
    [r \in 1..DimIn |-> [j \in 1..num_inputs |->
        LET p == (j - 1) % 5
            m == IF p = 0 THEN <<3, 2>>
                 ELSE IF p = 2 THEN Rat(2)
                 ELSE IF p = 4 THEN <<5, 2>>
                 ELSE IF s = 1 THEN <<5, 2>>
                 ELSE IF p = 1 THEN Half ELSE <<7, 2>>
        IN  IF r # (p % DimIn) + 1 THEN Zero
            ELSE IF j % (s + 1) = 0 THEN RNeg(m) ELSE m]]

\* W0 = np.random.uniform(-a, a, (20, 30)), a = 0.01
DrawW0(s) ==
    [r \in 1..DimHid |-> [c \in 1..DimIn |->
        IF s = 0 THEN Zero
        ELSE (IF r = c THEN <<-1, 100>> ELSE Zero)]]

\* W = np.random.uniform(-a, a, (10, 20)), a = 0.01
DrawW(s) ==
    [r \in 1..DimOut |-> [c \in 1..DimHid |->
        IF s = 0 THEN Zero
        ELSE IF s = 1 THEN (IF (r + c) % 2 = 0 THEN <<-1, 100>> ELSE Zero)
        ELSE <<-1, 100>>]]

\* B = np.random.uniform(-a, a, (20, 10)), a = 0.5
DrawB(s) ==
    [r \in 1..DimHid |-> [c \in 1..DimOut |->
        IF s = 0 THEN Zero
        ELSE IF s = 1 THEN (IF (r + c) % 2 = 0 THEN <<1, 4>> ELSE <<-1, 4>>)
        ELSE (IF (r + c) % 2 = 0 THEN <<-1, 2>> ELSE <<1, 4>>)]]

\* the permutation train_test_split(shuffle=True) draws: a rotation, reversed for odd seeds
Permutation(s, n) ==
    [k \in 1..n |->
        LET rot == ((k - 1 + 7 * (s \div 2)) % n) + 1
        IN  IF s % 2 = 1 THEN n + 1 - rot ELSE rot]

ImageSeeds == {1, 2}
NlWSeeds == {0, 1}
NlShuffleSeeds == {0, 1}

\* the images of the data set after ToTensor and view(-1, 784): one row per
\* sample, pixels in [0, 1]
DrawImages(s) ==
    [k \in 1..NlSamples |-> [c \in 1..NlDimIn |->
        IF (k + c + s) % 3 = 0 THEN One ELSE IF (k + c) % 2 = 0 THEN Half ELSE Zero]]

\* the labels of the data set: a class index per sample
DrawLabels(s) == [k \in 1..NlSamples |-> (k * s) % NlClasses]

\* W0 = np.random.uniform(-a, a, (1000, 784)), a = 0.1
DrawNlW0(s) ==
    [r \in 1..NlDimHid |-> [c \in 1..NlDimIn |->
        IF s = 0 THEN Zero
        ELSE (IF (r + c) % 2 = 0 THEN <<-1, 10>> ELSE <<1, 20>>)]]

\* W = np.random.uniform(-a, a, (10, 1000)), a = 0.1
DrawNlW(s) ==
    [r \in 1..NlClasses |-> [c \in 1..NlDimHid |->
        IF s = 0 THEN Zero
        ELSE (IF r = 1 THEN <<1, 20>> ELSE <<-1, 10>>)]]

\* B = np.random.uniform(-a, a, (1000, 10)), a = 0.5
DrawNlB(s) ==
    [r \in 1..NlDimHid |-> [c \in 1..NlClasses |->
        IF s = 0 THEN Zero
        ELSE IF s = 1 THEN (IF (r + c) % 2 = 0 THEN <<1, 4>> ELSE <<-1, 4>>)
        ELSE (IF (r + c) % 2 = 0 THEN <<-1, 2>> ELSE <<1, 4>>)]]

(***************************************************************************)
(* State.                                                                  *)
(***************************************************************************)
VARIABLES
    mode,               \* which experiment's cells run: "linear" or "nonlinear"
    pc,                 \* the cell / statement about to run
    T, x_data, y_data,  \* target matrix and synthetic data
    x_train, x_test, y_train, y_test,
    num_batches, x_train_batches, y_train_batches,
    W0, W, B,           \* forward weights and the feedback matrix
    epoch, i,           \* loop variables
    delta_W0, delta_W, loss, size,
    test_error,
    images, labels,     \* the image data set behind trainloader
    order,              \* the order in which the loader yields this epoch's samples
    hist,               \* history: per completed epoch, its loss and the W, W0 it ran with
    nW, nW0,            \* history: number of assignments to W and to W0
    W_done, W0_done     \* history: W and W0 at the end of the last completed epoch

data_vars == <<T, x_data, y_data, x_train, x_test, y_train, y_test,
               num_batches, x_train_batches, y_train_batches>>
nl_data_vars == <<images, labels>>
hist_vars == <<hist, nW, nW0, W_done, W0_done>>
vars == <<mode, pc, data_vars, W0, W, B, epoch, i, delta_W0, delta_W, loss, size,
          test_error, nl_data_vars, order, hist_vars>>

\* a name not bound yet
None == <<>>

(***************************************************************************)
(* Linear experiment: data preparation.                                    *)
(***************************************************************************)
\* ceil(f * n) for a fraction f (sklearn's _validate_shuffle_split)
CeilFrac(f, n) == (f[1] * n + f[2] - 1) \div f[2]

\* mutant: x and y are split by different shuffles
TrainTestSplit_UnpairedShuffle(x, y, perm) ==
    LET n == Cols(x)
        n_test == CeilFrac(test_size, n)
        n_train == n - n_test
        ind_test == SubSeq(perm, 1, n_test)
        ind_train == SubSeq(perm, n_test + 1, n_test + n_train)
        y_test_ind == [k \in 1..n_test |-> ind_test[n_test + 1 - k]]
        y_train_ind == [k \in 1..n_train |-> ind_train[n_train + 1 - k]]
    IN  [x_train |-> ColTake(x, ind_train), x_test |-> ColTake(x, ind_test),
         y_train |-> ColTake(y, y_train_ind), y_test |-> ColTake(y, y_test_ind)]

\* train_test_split(x_data.T, y_data.T, test_size=0.25, shuffle=True):
\* the first n_test entries of the permutation index the test samples, the
\* rest the training samples; the same indices are used for x and y
TrainTestSplit(x, y, perm) ==
    LET n == Cols(x)
        n_test == CeilFrac(test_size, n)
        n_train == n - n_test
        ind_test == SubSeq(perm, 1, n_test)
        ind_train == SubSeq(perm, n_test + 1, n_test + n_train)
    IN  [x_train |-> ColTake(x, ind_train), x_test |-> ColTake(x, ind_test),
         y_train |-> ColTake(y, ind_train), y_test |-> ColTake(y, ind_test)]

\* num_batches = x_train.shape[1] / batch_size: Python's true division
NumBatches(n) == Norm(n, batch_size)

\* n % sections == 0 for a rational sections > 0
DividesEvenly(n, sections) == (n * sections[2]) % sections[1] = 0

RECURSIVE SplitFrom(_, _, _, _, _)
\* the sub-arrays k..Nsections of array_split: the first extras sections hold
\* Neach + 1 columns, the others Neach; st is the first column of section k
SplitFrom(ary, k, Nsections, Neach, st) ==
    IF k > Nsections THEN <<>>
    ELSE LET extras == Cols(ary) - Neach * Nsections
             len == IF k <= extras THEN Neach + 1 ELSE Neach
         IN  <<ColSlice(ary, st, st + len - 1)>>
                 \o SplitFrom(ary, k + 1, Nsections, Neach, st + len)

\* np.split(ary, sections, axis=1) for a scalar sections: ValueError unless
\* N % sections == 0; then array_split cuts int(sections) sub-arrays
NpSplit(ary, sections) ==
    LET N == Cols(ary)
        Nsections == sections[1] \div sections[2]
    IN  IF ~DividesEvenly(N, sections) \/ Nsections <= 0 THEN "ValueError"
        ELSE SplitFrom(ary, 1, Nsections, N \div Nsections, 1)

(***************************************************************************)
(* Linear experiment: one mini-batch of the training loop body.            *)
(***************************************************************************)
\* mutant: the W0 term is the backprop signal, delta_BP @ x^T
LinBatchStep_Backprop(Wm, W0m, Bm, training_data, training_labels) ==
    LET h == MatMul(W0m, training_data)
        y == MatMul(Wm, h)
        e == MatSub(training_labels, y)
        delta_BP == MatMul(Transpose(Wm), e)
    IN  [h |-> h, e |-> e,
         loss |-> RMul(Half, SqNorm(e)),
         dW |-> MatMul(e, Transpose(h)),
         dW0 |-> MatMul(delta_BP, Transpose(training_data))]

\* h = W0 @ x; y = W @ h; e = y* - y; loss term; delta_BP, delta_FA;
\* the terms added to delta_W and delta_W0
LinBatchStep(Wm, W0m, Bm, training_data, training_labels) ==
    LET h == MatMul(W0m, training_data)
        y == MatMul(Wm, h)
        e == MatSub(training_labels, y)
        delta_BP == MatMul(Transpose(Wm), e)
        delta_FA == MatMul(Bm, e)
    IN  [h |-> h, e |-> e,
         loss |-> RMul(Half, SqNorm(e)),
         dW |-> MatMul(e, Transpose(h)),
         dW0 |-> MatMul(MatMul(Bm, e), Transpose(training_data))]

\* eta / N
StepSize(n) == RMul(eta, <<1, n>>)

\* mutant: the step is not divided by the number of samples
ApplyStep_NoMean(Wm, n, delta) == MatAdd(Wm, MatScale(eta, delta))

\* W + (eta / N) * delta
ApplyStep(Wm, n, delta) == MatAdd(Wm, MatScale(StepSize(n), delta))

(***************************************************************************)
(* Non-linear experiment: the loader and one mini-batch of the loop body.  *)
(***************************************************************************)
\* sigma(x) = 1 / (1 + np.exp(-x)).  exp has no rational values, so sigma is
\* abstracted to three levels that keep 0 < sigma < 1, sigma(0) = 1/2,
\* sigma(-x) = 1 - sigma(x) and monotonicity
sigma(x) ==
    IF IsOVF(x) THEN OVF
    ELSE IF x[1] < 0 THEN <<1, 4>>
    ELSE IF x[1] = 0 THEN Half
    ELSE <<3, 4>>

MatSigma(A) == Eval([r \in 1..Rows(A) |-> [c \in 1..Cols(A) |-> sigma(A[r][c])]])

\* np.ones_like(A)
OnesLike(A) == [r \in 1..Rows(A) |-> [c \in 1..Cols(A) |-> One]]

\* A[idx, :] for a sequence of row indices
RowTake(A, idx) == [k \in 1..Len(idx) |-> A[idx[k]]]

\* len(trainloader): batches of batch_size samples, the last one shorter (drop_last=False)
LoaderLen(n) == (n + nl_batch_size - 1) \div nl_batch_size

\* the sample indices of the loader's k-th batch (k from 0) in this epoch's order
LoaderBatch(ord, k) ==
    LET lo == k * nl_batch_size + 1
        hi == IF (k + 1) * nl_batch_size < Len(ord) THEN (k + 1) * nl_batch_size ELSE Len(ord)
    IN  SubSeq(ord, lo, hi)

\* np.eye(10)[training_labels].T
OneHotT(lbl) ==
    [c \in 1..NlClasses |-> [j \in 1..Len(lbl) |-> IF lbl[j] = c - 1 THEN One ELSE Zero]]

\* mutant: the W0 term is built from the backprop signal delta_BP
NlBatchStep_Backprop(Wm, W0m, Bm, training_data, training_labels) ==
    LET h == MatSigma(MatMul(W0m, Transpose(training_data)))
        y == MatSigma(MatMul(Wm, h))
        e == MatSub(training_labels, y)
        delta_BP == MatMul(Transpose(Wm), e)
        one_y == OnesLike(y)
        one_h == OnesLike(h)
    IN  [h |-> h, e |-> e,
         loss |-> RMul(Half, SqNorm(e)),
         dW |-> MatMul(MatHad(e, MatHad(y, MatSub(one_y, y))), Transpose(h)),
         dW0 |-> MatMul(MatHad(delta_BP, MatHad(h, MatSub(one_h, h))), training_data),
         n |-> Rows(training_data)]

\* h = sigma(W0 @ x.T); y = sigma(W @ h); e = y* - y; loss term; delta_BP, delta_FA;
\* the terms added to delta_W and delta_W0; training_data has one row per sample
NlBatchStep(Wm, W0m, Bm, training_data, training_labels) ==
    LET h == MatSigma(MatMul(W0m, Transpose(training_data)))
        y == MatSigma(MatMul(Wm, h))
        e == MatSub(training_labels, y)
        delta_BP == MatMul(Transpose(Wm), e)
        delta_FA == MatMul(Bm, e)
        one_y == OnesLike(y)
        one_h == OnesLike(h)
    IN  [h |-> h, e |-> e,
         loss |-> RMul(Half, SqNorm(e)),
         dW |-> MatMul(MatHad(e, MatHad(y, MatSub(one_y, y))), Transpose(h)),
         dW0 |-> MatMul(MatHad(delta_FA, MatHad(h, MatSub(one_h, h))), training_data),
         n |-> Rows(training_data)]

(***************************************************************************)
(* Initial states: the cells that draw the data and the weights have run.  *)
(***************************************************************************)
InitNonlinear ==
    /\ mode = "nonlinear"
    /\ pc = "epoch"
    /\ \E s \in ImageSeeds : images = DrawImages(s) /\ labels = DrawLabels(s)
    /\ \E s \in NlWSeeds : W0 = DrawNlW0(s)
    /\ \E s \in NlWSeeds : W = DrawNlW(s)
    /\ \E s \in BSeeds : B = DrawNlB(s)
    /\ T = None /\ x_data = None /\ y_data = None
    /\ x_train = None /\ x_test = None /\ y_train = None /\ y_test = None
    /\ num_batches = None /\ x_train_batches = None /\ y_train_batches = None
    /\ order = None
    /\ epoch = -1 /\ i = 0
    /\ delta_W0 = None /\ delta_W = None /\ loss = None /\ size = None
    /\ test_error = None
    /\ hist = <<>> /\ nW = 0 /\ nW0 = 0
    /\ W_done = W /\ W0_done = W0

InitLinear ==
    /\ mode = "linear"
    /\ pc = "split"
    /\ \E ts \in TSeeds, xs \in DataSeeds :
          /\ T = DrawT(ts)
          /\ x_data = DrawX(xs)
          /\ y_data = MatMul(DrawT(ts), DrawX(xs))
    /\ \E s \in W0Seeds : W0 = DrawW0(s)
    /\ \E s \in WSeeds : W = DrawW(s)
    /\ \E s \in BSeeds : B = DrawB(s)
    /\ x_train = None /\ x_test = None /\ y_train = None /\ y_test = None
    /\ num_batches = None /\ x_train_batches = None /\ y_train_batches = None
    /\ images = None /\ labels = None /\ order = None
    /\ epoch = -1 /\ i = 0
    /\ delta_W0 = None /\ delta_W = None /\ loss = None /\ size = None
    /\ test_error = None
    /\ hist = <<>> /\ nW = 0 /\ nW0 = 0
    /\ W_done = W /\ W0_done = W0

(***************************************************************************)
(* Linear experiment: the cells in order.                                  *)
(***************************************************************************)
\* x_train, x_test, y_train, y_test = train_test_split(...)
LinSplit ==
    /\ mode = "linear" /\ pc = "split"
    /\ \E s \in ShuffleSeeds :
          LET r == TrainTestSplit(x_data, y_data, Permutation(s, Cols(x_data)))
          IN  /\ x_train' = r.x_train /\ x_test' = r.x_test
              /\ y_train' = r.y_train /\ y_test' = r.y_test
    /\ pc' = "batches"
    /\ UNCHANGED <<mode, T, x_data, y_data, num_batches, x_train_batches,
                   y_train_batches, W0, W, B, epoch, i, delta_W0, delta_W, loss,
                   size, test_error, nl_data_vars, order, hist_vars>>

\* num_batches = x_train.shape[1] / batch_size
\* x_train_batches, y_train_batches = np.split(x_train, num_batches, axis=1), np.split(y_train, ...)
LinCreateBatches ==
    /\ mode = "linear" /\ pc = "batches"
    /\ num_batches' = NumBatches(Cols(x_train))
    /\ LET xb == NpSplit(x_train, num_batches')
           yb == NpSplit(y_train, num_batches')
       IN  IF xb = "ValueError" \/ yb = "ValueError"
           THEN pc' = "error" /\ UNCHANGED <<x_train_batches, y_train_batches>>
           ELSE pc' = "epoch" /\ x_train_batches' = xb /\ y_train_batches' = yb
    /\ UNCHANGED <<mode, T, x_data, y_data, x_train, x_test, y_train, y_test,
                   W0, W, B, epoch, i, delta_W0, delta_W, loss, size, test_error,
                   nl_data_vars, order, hist_vars>>

\* mutant: loss is set to 0 once, before the loop, and not per epoch
LinEpochStart_KeepsLoss ==
    /\ mode = "linear" /\ pc = "epoch"
    /\ epoch + 1 < num_epochs
    /\ epoch' = epoch + 1
    /\ delta_W0' = ZeroMat(Rows(W0), Cols(W0))
    /\ delta_W' = ZeroMat(Rows(W), Cols(W))
    /\ loss' = IF loss = None THEN Zero ELSE loss
    /\ i' = 0
    /\ pc' = "batch"
    /\ UNCHANGED <<mode, data_vars, W0, W, B, size, test_error, nl_data_vars,
                   order, hist_vars>>

\* for epoch in range(num_epochs): delta_W0, delta_W, loss = 0, 0, 0
\* (the scalar 0 broadcasts to a zero matrix at the first addition)
LinEpochStart ==
    /\ mode = "linear" /\ pc = "epoch"
    /\ epoch + 1 < num_epochs
    /\ epoch' = epoch + 1
    /\ delta_W0' = ZeroMat(Rows(W0), Cols(W0))
    /\ delta_W' = ZeroMat(Rows(W), Cols(W))
    /\ loss' = Zero
    /\ i' = 0
    /\ pc' = "batch"
    /\ UNCHANGED <<mode, data_vars, W0, W, B, size, test_error, nl_data_vars,
                   order, hist_vars>>

\* mutant: the error is computed in place (training_labels -= y), which
\* writes through the view into the stored batch
LinBatch_InPlaceError ==
    /\ mode = "linear" /\ pc = "batch"
    /\ i < Len(x_train_batches)
    /\ LET st == LinBatchStep(W, W0, B, x_train_batches[i + 1], y_train_batches[i + 1])
       IN  /\ loss' = RAdd(loss, st.loss)
           /\ delta_W' = MatAdd(delta_W, st.dW)
           /\ delta_W0' = MatAdd(delta_W0, st.dW0)
           /\ y_train_batches' = [y_train_batches EXCEPT ![i + 1] = st.e]
    /\ ~IsOVF(loss') /\ ~MatHasOVF(delta_W') /\ ~MatHasOVF(delta_W0')
    /\ i' = i + 1
    /\ UNCHANGED <<mode, pc, T, x_data, y_data, x_train, x_test, y_train, y_test,
                   num_batches, x_train_batches, W0, W, B, epoch, size, test_error,
                   nl_data_vars, order, hist_vars>>

\* the body of "for i in range(len(x_train_batches))" for batch i
LinBatch ==
    /\ mode = "linear" /\ pc = "batch"
    /\ i < Len(x_train_batches)
    /\ LET st == LinBatchStep(W, W0, B, x_train_batches[i + 1], y_train_batches[i + 1])
       IN  /\ loss' = RAdd(loss, st.loss)
           /\ delta_W' = MatAdd(delta_W, st.dW)
           /\ delta_W0' = MatAdd(delta_W0, st.dW0)
    /\ ~IsOVF(loss') /\ ~MatHasOVF(delta_W') /\ ~MatHasOVF(delta_W0')
    /\ i' = i + 1
    /\ UNCHANGED <<mode, pc, data_vars, W0, W, B, epoch, size, test_error,
                   nl_data_vars, order, hist_vars>>

\* after the last batch: W = W + (eta / N) * delta_W; W0 = W0 + (eta / N) * delta_W0;
\* the loss is printed every 100 epochs
LinUpdate ==
    /\ mode = "linear" /\ pc = "batch"
    /\ i = Len(x_train_batches)
    /\ W' = ApplyStep(W, Cols(x_train), delta_W)
    /\ W0' = ApplyStep(W0, Cols(x_train), delta_W0)
    /\ ~MatHasOVF(W') /\ ~MatHasOVF(W0')
    /\ hist' = Append(hist, [loss |-> loss, W |-> W, W0 |-> W0])
    /\ nW' = nW + 1 /\ nW0' = nW0 + 1
    /\ W_done' = W' /\ W0_done' = W0'
    /\ pc' = "epoch"
    /\ UNCHANGED <<mode, data_vars, B, epoch, i, delta_W0, delta_W, loss, size,
                   test_error, nl_data_vars, order>>

\* mutant: the loop also ends as soon as an epoch's loss is zero
LinLoopExit_EarlyStop ==
    /\ mode = "linear" /\ pc = "epoch"
    /\ ~(epoch + 1 < num_epochs) \/ (epoch >= 0 /\ loss = Zero)
    /\ pc' = "test"
    /\ UNCHANGED <<mode, data_vars, W0, W, B, epoch, i, delta_W0, delta_W, loss,
                   size, test_error, nl_data_vars, order, hist_vars>>

\* range(num_epochs) is exhausted: the training cell ends
LinLoopExit ==
    /\ mode = "linear" /\ pc = "epoch"
    /\ ~(epoch + 1 < num_epochs)
    /\ pc' = "test"
    /\ UNCHANGED <<mode, data_vars, W0, W, B, epoch, i, delta_W0, delta_W, loss,
                   size, test_error, nl_data_vars, order, hist_vars>>

\* h = W0 @ x_test; y = W @ h; e = y_test - y; test_error = 0.5 * np.square(np.linalg.norm(e))
TestError(Wm, W0m, x, y) == RMul(Half, SqNorm(MatSub(y, MatMul(Wm, MatMul(W0m, x)))))

LinTest ==
    /\ mode = "linear" /\ pc = "test"
    /\ test_error' = TestError(W, W0, x_test, y_test)
    /\ ~IsOVF(test_error')
    /\ pc' = "done"
    /\ UNCHANGED <<mode, data_vars, W0, W, B, epoch, i, delta_W0, delta_W, loss,
                   size, nl_data_vars, order, hist_vars>>

(***************************************************************************)
(* Non-linear experiment: the training cell.                               *)
(***************************************************************************)
\* mutant: delta_W0 and delta_W are set to 0 once, before the loop, and not
\* per epoch
NlEpochStart_KeepsDeltas ==
    /\ mode = "nonlinear" /\ pc = "epoch"
    /\ epoch + 1 < num_epochs
    /\ epoch' = epoch + 1
    /\ delta_W0' = IF delta_W0 = None THEN ZeroMat(Rows(W0), Cols(W0)) ELSE delta_W0
    /\ delta_W' = IF delta_W = None THEN ZeroMat(Rows(W), Cols(W)) ELSE delta_W
    /\ loss' = Zero
    /\ size' = 0
    /\ \E s \in NlShuffleSeeds : order' = Permutation(s, Len(images))
    /\ i' = 0
    /\ pc' = "batch"
    /\ UNCHANGED <<mode, data_vars, W0, W, B, test_error, nl_data_vars, hist_vars>>

\* for epoch in range(num_epochs): delta_W0, delta_W, loss, size = 0, 0, 0, 0;
\* iter(trainloader) draws a new order of the samples (shuffle=True)
NlEpochStart ==
    /\ mode = "nonlinear" /\ pc = "epoch"
    /\ epoch + 1 < num_epochs
    /\ epoch' = epoch + 1
    /\ delta_W0' = ZeroMat(Rows(W0), Cols(W0))
    /\ delta_W' = ZeroMat(Rows(W), Cols(W))
    /\ loss' = Zero
    /\ size' = 0
    /\ \E s \in NlShuffleSeeds : order' = Permutation(s, Len(images))
    /\ i' = 0
    /\ pc' = "batch"
    /\ UNCHANGED <<mode, data_vars, W0, W, B, test_error, nl_data_vars, hist_vars>>

\* mutant: the weights are stepped after every mini-batch
NlBatch_OnlineUpdate ==
    /\ mode = "nonlinear" /\ pc = "batch"
    /\ i < LoaderLen(Len(images))
    /\ LET idx == LoaderBatch(order, i)
           st == NlBatchStep(W, W0, B, RowTake(images, idx), OneHotT(RowTake(labels, idx)))
       IN  /\ loss' = RAdd(loss, st.loss)
           /\ delta_W' = MatAdd(delta_W, st.dW)
           /\ delta_W0' = MatAdd(delta_W0, st.dW0)
           /\ size' = size + st.n
           /\ W' = ApplyStep(W, st.n, st.dW)
           /\ W0' = ApplyStep(W0, st.n, st.dW0)
    /\ ~IsOVF(loss') /\ ~MatHasOVF(delta_W') /\ ~MatHasOVF(delta_W0')
    /\ ~MatHasOVF(W') /\ ~MatHasOVF(W0')
    /\ i' = i + 1
    /\ UNCHANGED <<mode, pc, data_vars, B, epoch, test_error, nl_data_vars,
                   order, hist_vars>>

\* the body of "for training_data, training_labels in tqdm(trainloader)" for
\* the loader's next batch
NlBatch ==
    /\ mode = "nonlinear" /\ pc = "batch"
    /\ i < LoaderLen(Len(images))
    /\ LET idx == LoaderBatch(order, i)
           st == NlBatchStep(W, W0, B, RowTake(images, idx), OneHotT(RowTake(labels, idx)))
       IN  /\ loss' = RAdd(loss, st.loss)
           /\ delta_W' = MatAdd(delta_W, st.dW)
           /\ delta_W0' = MatAdd(delta_W0, st.dW0)
           /\ size' = size + st.n
    /\ ~IsOVF(loss') /\ ~MatHasOVF(delta_W') /\ ~MatHasOVF(delta_W0')
    /\ i' = i + 1
    /\ UNCHANGED <<mode, pc, data_vars, W0, W, B, epoch, test_error, nl_data_vars,
                   order, hist_vars>>

\* after the loader's last batch: W = W + (eta / size) * delta_W
NlUpdateW ==
    /\ mode = "nonlinear" /\ pc = "batch"
    /\ i = LoaderLen(Len(images))
    /\ W' = ApplyStep(W, size, delta_W)
    /\ ~MatHasOVF(W')
    /\ nW' = nW + 1
    /\ pc' = "updateW0"
    /\ UNCHANGED <<mode, data_vars, W0, B, epoch, i, delta_W0, delta_W, loss, size,
                   test_error, nl_data_vars, order, hist, nW0, W_done, W0_done>>

\* mutant: the feedback matrix is trained along with W0
NlUpdateW0_TrainsB ==
    /\ mode = "nonlinear" /\ pc = "updateW0"
    /\ W0' = ApplyStep(W0, size, delta_W0)
    /\ B' = MatAdd(B, MatScale(StepSize(size), Transpose(delta_W)))
    /\ ~MatHasOVF(W0') /\ ~MatHasOVF(B')
    /\ nW0' = nW0 + 1
    /\ hist' = Append(hist, [loss |-> loss, W |-> W_done, W0 |-> W0])
    /\ W_done' = W /\ W0_done' = W0'
    /\ pc' = "epoch"
    /\ UNCHANGED <<mode, data_vars, W, epoch, i, delta_W0, delta_W, loss, size,
                   test_error, nl_data_vars, order, nW>>

\* W0 = W0 + (eta / size) * delta_W0; the loss is printed every 10 epochs
NlUpdateW0 ==
    /\ mode = "nonlinear" /\ pc = "updateW0"
    /\ W0' = ApplyStep(W0, size, delta_W0)
    /\ ~MatHasOVF(W0')
    /\ nW0' = nW0 + 1
    /\ hist' = Append(hist, [loss |-> loss, W |-> W_done, W0 |-> W0])
    /\ W_done' = W /\ W0_done' = W0'
    /\ pc' = "epoch"
    /\ UNCHANGED <<mode, data_vars, W, B, epoch, i, delta_W0, delta_W, loss, size,
                   test_error, nl_data_vars, order, nW>>

\* range(num_epochs) is exhausted: the training cell ends
NlLoopExit ==
    /\ mode = "nonlinear" /\ pc = "epoch"
    /\ ~(epoch + 1 < num_epochs)
    /\ pc' = "done"
    /\ UNCHANGED <<mode, data_vars, W0, W, B, epoch, i, delta_W0, delta_W, loss,
                   size, test_error, nl_data_vars, order, hist_vars>>

\* mutant: the crash is caught and the deltas gathered so far are applied
LoaderCrash_AppliesPartial ==
    /\ mode = "nonlinear" /\ pc = "batch"
    /\ i < LoaderLen(Len(images))
    /\ IF size > 0
       THEN /\ W' = ApplyStep(W, size, delta_W)
            /\ W0' = ApplyStep(W0, size, delta_W0)
            /\ ~MatHasOVF(W') /\ ~MatHasOVF(W0')
       ELSE UNCHANGED <<W, W0>>
    /\ pc' = "aborted"
    /\ UNCHANGED <<mode, data_vars, B, epoch, i, delta_W0, delta_W, loss,
                   size, test_error, nl_data_vars, order, hist_vars>>

\* a data-loading worker dies: fetching the next batch raises RuntimeError,
\* which nothing catches; the cell ends with the traceback
LoaderCrash ==
    /\ mode = "nonlinear" /\ pc = "batch"
    /\ i < LoaderLen(Len(images))
    /\ pc' = "aborted"
    /\ UNCHANGED <<mode, data_vars, W0, W, B, epoch, i, delta_W0, delta_W, loss,
                   size, test_error, nl_data_vars, order, hist_vars>>

\* KeyboardInterrupt: raised between any two statements of the running cell,
\* caught by nothing; the cell ends with the traceback
Interrupt ==
    /\ mode = "nonlinear" /\ pc \in {"epoch", "batch", "updateW0"}
    /\ pc' = "aborted"
    /\ UNCHANGED <<mode, data_vars, W0, W, B, epoch, i, delta_W0, delta_W, loss,
                   size, test_error, nl_data_vars, order, hist_vars>>

Init == InitLinear \/ InitNonlinear

Next ==
    \/ LinSplit \/ LinCreateBatches \/ LinEpochStart \/ LinBatch \/ LinUpdate
    \/ LinLoopExit \/ LinTest
    \/ NlEpochStart \/ NlBatch \/ NlUpdateW \/ NlUpdateW0 \/ NlLoopExit
    \/ LoaderCrash \/ Interrupt

Spec == Init /\ [][Next]_vars

(***************************************************************************)
(* Properties.                                                             *)
(***************************************************************************)
\* the step that ends an epoch of the linear experiment
IsLinUpdate == mode = "linear" /\ pc = "batch" /\ pc' = "epoch"

RECURSIVE FeedbackSum(_, _, _, _, _, _)
\* SUM over the first k mini-batches of B @ (e @ x^T), e = y* - (W @ W0) @ x
FeedbackSum(Wm, W0m, Bm, xb, yb, k) ==
    IF k = 0 THEN ZeroMat(Rows(W0m), Cols(W0m))
    ELSE LET e == MatSub(yb[k], MatMul(MatMul(Wm, W0m), xb[k]))
         IN  MatAdd(FeedbackSum(Wm, W0m, Bm, xb, yb, k - 1),
                    MatMul(Bm, MatMul(e, Transpose(xb[k]))))

\* C1: one epoch of the linear experiment changes W0 by (eta / N) times the
\* sum over all mini-batches of B @ e @ x^T, with e = y* - W @ W0 @ x taken
\* at the weights the epoch started with and B the feedback matrix
C1_FeedbackAlignmentStep ==
    [][IsLinUpdate =>
        LET sum == FeedbackSum(W, W0, B, x_train_batches, y_train_batches,
                               Len(x_train_batches))
            rhs == MatAdd(W0, MatScale(Norm(eta[1], eta[2] * Cols(x_train)), sum))
        IN  MatHasOVF(rhs) \/ W0' = rhs]_vars

\* an epoch whose error depended on W @ W0 has been applied to W0
C1_Witness ==
    /\ mode = "linear" /\ pc = "epoch" /\ Len(hist) = 2
    /\ hist[2].loss # hist[1].loss
    /\ W0 # hist[2].W0
    /\ B # ZeroMat(Rows(B), Cols(B))

\* SUM over all training samples of e h^T, h = W0 x, e = y* - W h, written
\* for the whole training set at once: (Y - (W W0) X) (W0 X)^T, which is
\* minus the gradient of SUM 1/2 e^T e with respect to W
GradientSum(Wm, W0m, x, y) ==
    MatMul(MatSub(y, MatMul(MatMul(Wm, W0m), x)), Transpose(MatMul(W0m, x)))

\* C2: one epoch of the linear experiment changes W by (eta / N) times the
\* sum of e @ h^T, h = W0 @ x, e = y* - W @ h: the backprop step for W
C2_BackpropStepForW ==
    [][IsLinUpdate =>
        LET sum == GradientSum(W, W0, x_train, y_train)
            rhs == MatAdd(W, MatScale(Norm(eta[1], eta[2] * Cols(x_train)), sum))
        IN  MatHasOVF(rhs) \/ W' = rhs]_vars

\* an epoch with non-zero hidden activity and error has been applied to W
C2_Witness ==
    /\ mode = "linear" /\ pc = "epoch" /\ Len(hist) >= 1
    /\ W # hist[Len(hist)].W
    /\ hist[Len(hist)].loss # Zero

\* C3: no step of either training loop changes the feedback matrix B
C3_FeedbackMatrixFixed == [][B' = B]_vars

\* a whole non-linear training run has moved W0 with a non-zero B
C3_Witness ==
    /\ mode = "nonlinear" /\ pc = "done" /\ nW0 = num_epochs
    /\ B # ZeroMat(Rows(B), Cols(B))
    /\ W0 # hist[1].W0

\* C4: T and the data derived from it never change; the training set and its
\* mini-batches never change once they are built, neither in training nor in
\* the test evaluation
C4_TargetAndDataFixed ==
    [][/\ UNCHANGED <<T, x_data, y_data>>
       /\ pc \notin {"split"} => UNCHANGED <<x_train, y_train, x_test, y_test>>
       /\ pc \notin {"split", "batches"} =>
              UNCHANGED <<x_train_batches, y_train_batches>>]_vars

\* training and the test evaluation have run on a non-zero target
C4_Witness ==
    /\ mode = "linear" /\ pc = "done" /\ nW = num_epochs
    /\ T # ZeroMat(Rows(T), Cols(T))
    /\ test_error # None

\* C5 as stated: in the linear experiment the loss of every epoch is strictly
\* smaller than the loss of the epoch before it, unless that one was zero
C5_LossStrictlyDecreases ==
    mode = "linear" =>
        \A k \in 1..(Len(hist) - 1) :
            hist[k].loss # Zero =>
                \/ RLess(hist[k + 1].loss, hist[k].loss)
                \/ IsOVF(RSub(hist[k + 1].loss, hist[k].loss))

\* C5 as amended: the loss of an epoch is decided by the weights the epoch
\* starts with; it need not decrease, and an epoch that starts with the same
\* W and W0 as the epoch before it accumulates the same loss
C5_LossFollowsWeights ==
    mode = "linear" =>
        \A k \in 1..(Len(hist) - 1) :
            (hist[k + 1].W = hist[k].W /\ hist[k + 1].W0 = hist[k].W0) =>
                hist[k + 1].loss = hist[k].loss

\* two epochs have run with a non-zero loss and the first left the weights as
\* they were
C5_Witness ==
    /\ mode = "linear" /\ Len(hist) = 2
    /\ hist[1].loss # Zero
    /\ hist[2].W = hist[1].W /\ hist[2].W0 = hist[1].W0

\* the number of mini-batches of one epoch
BatchesPerEpoch ==
    IF mode = "nonlinear" THEN LoaderLen(Len(images))
    ELSE IF x_train_batches # None THEN Len(x_train_batches)
    ELSE num_inputs

\* an upper bound on the number of steps the run can still take
StepsLeft ==
    LET per == BatchesPerEpoch + 3
        later == (num_epochs - 1 - epoch) * per
    IN  IF pc \in {"done", "error", "aborted"} THEN 0
        ELSE IF pc = "test" THEN 1
        ELSE IF pc = "epoch" THEN later + 2
        ELSE IF pc = "updateW0" THEN later + 3
        ELSE IF pc = "batch" THEN later + 4 + (BatchesPerEpoch - i)
        ELSE IF pc = "batches" THEN num_epochs * per + 3
        ELSE num_epochs * per + 4

\* C6: a training run makes exactly num_epochs updates of W and of W0, one
\* per epoch 0 .. num_epochs - 1, whatever the losses are, and then ends:
\* every step brings the end of the run nearer
C6_FixedNumberOfEpochs ==
    /\ [](/\ nW <= num_epochs /\ nW0 <= num_epochs /\ epoch < num_epochs
          /\ pc \in {"epoch", "test", "done"} =>
                 nW = epoch + 1 /\ nW0 = epoch + 1 /\ Len(hist) = epoch + 1
          /\ pc \in {"test", "done"} =>
                 nW = num_epochs /\ nW0 = num_epochs /\ Len(hist) = num_epochs)
    /\ [][StepsLeft >= 0 /\ StepsLeft' < StepsLeft]_vars

\* a run has ended after num_epochs epochs whose losses differ
C6_Witness ==
    /\ pc = "done" /\ nW = num_epochs /\ nW0 = num_epochs
    /\ \E k \in 1..Len(hist) : hist[k].loss # hist[1].loss

\* C7: the amount a mini-batch adds to delta_W0 is decided by B, e, x (and h):
\* the same step taken with other forward weights W2, on labels that give
\* the same error e, adds the same amount to delta_W0 (and, in the linear
\* experiment, to delta_W): W^T e reaches no update
C7_W0StepIgnoresW ==
    /\ (mode = "linear" /\ pc = "batch" /\ i < Len(x_train_batches)) =>
        \A s \in WSeeds :
            LET x == x_train_batches[i + 1]
                st == LinBatchStep(W, W0, B, x, y_train_batches[i + 1])
                W2 == DrawW(s)
                labels2 == MatAdd(st.e, MatMul(W2, st.h))
                st2 == LinBatchStep(W2, W0, B, x, labels2)
            IN  \/ MatHasOVF(labels2) \/ MatHasOVF(st2.e)
                \/ MatHasOVF(st2.dW0) \/ MatHasOVF(st.dW0)
                \/ st2.e = st.e /\ st2.h = st.h /\ st2.dW0 = st.dW0 /\ st2.dW = st.dW
    /\ (mode = "nonlinear" /\ pc = "batch" /\ i < LoaderLen(Len(images))) =>
        \A s \in NlWSeeds :
            LET idx == LoaderBatch(order, i)
                x == RowTake(images, idx)
                st == NlBatchStep(W, W0, B, x, OneHotT(RowTake(labels, idx)))
                W2 == DrawNlW(s)
                labels2 == MatAdd(st.e, MatSigma(MatMul(W2, st.h)))
                st2 == NlBatchStep(W2, W0, B, x, labels2)
            IN  \/ MatHasOVF(labels2) \/ MatHasOVF(st2.e)
                \/ MatHasOVF(st2.dW0) \/ MatHasOVF(st.dW0)
                \/ st2.e = st.e /\ st2.h = st.h /\ st2.dW0 = st.dW0

\* a mini-batch step with a non-zero error, for which the backprop signal
\* W^T e differs between W and another draw of W
C7_Witness ==
    /\ mode = "nonlinear" /\ pc = "batch" /\ i < LoaderLen(Len(images))
    /\ epoch >= 1
    /\ LET idx == LoaderBatch(order, i)
           st == NlBatchStep(W, W0, B, RowTake(images, idx), OneHotT(RowTake(labels, idx)))
       IN  /\ st.dW0 # ZeroMat(Rows(W0), Cols(W0))
           /\ \E s \in NlWSeeds :
                  MatMul(Transpose(DrawNlW(s)), st.e) # MatMul(Transpose(W), st.e)

\* C8 as stated: a run ended by a failure or an interrupt leaves W and W0 as
\* they were at the end of the last completed epoch
C8_AbortKeepsLastEpoch ==
    pc = "aborted" => W = W_done /\ W0 = W0_done

\* C8 as amended: a failure or interrupt ends the run and no partial delta is
\* ever applied; raised before the epoch's update of W, it leaves W and W0 as
\* at the end of the last completed epoch; raised between the update of W and
\* the update of W0, it leaves W with the epoch's whole step and W0 without
C8_AbortKeepsOrHalfUpdates ==
    /\ [](pc = "aborted" =>
            /\ W0 = W0_done
            /\ \/ nW = nW0 /\ W = W_done
               \/ /\ nW = nW0 + 1
                  /\ i = LoaderLen(Len(images))
                  /\ W = ApplyStep(W_done, size, delta_W))
    /\ [][pc # "aborted"]_vars

\* the second epoch was cut short after its first mini-batch, with non-zero
\* partial deltas, after a first epoch that moved both W and W0
C8_Witness ==
    /\ mode = "nonlinear" /\ pc = "aborted" /\ epoch = 1 /\ i = 1
    /\ delta_W # ZeroMat(Rows(W), Cols(W))
    /\ delta_W0 # ZeroMat(Rows(W0), Cols(W0))
    /\ W_done # hist[1].W /\ W0_done # hist[1].W0

\* C9 as stated: the training set is cut into (number of training samples) /
\* batch_size mini-batches of exactly batch_size samples each
C9_BatchesOfBatchSize ==
    (mode = "linear" /\ x_train_batches # None) =>
        /\ Len(x_train_batches) * batch_size = Cols(x_train)
        /\ \A k \in 1..Len(x_train_batches) : Cols(x_train_batches[k]) = batch_size

RECURSIVE BatchOffset(_, _)
\* the number of columns in the mini-batches before batch k
BatchOffset(batches, k) ==
    IF k <= 1 THEN 0 ELSE BatchOffset(batches, k - 1) + Cols(batches[k - 1])

\* column c of A
Column(A, c) == [r \in 1..Rows(A) |-> A[r][c]]

\* C10: the mini-batches are the training set cut into consecutive pieces,
\* every training sample in exactly one of them, inputs and labels cut alike,
\* and every label column is T applied to its input column
C10_BatchesPartitionTrainingSet ==
    (mode = "linear" /\ x_train_batches # None) =>
        LET n == Len(x_train_batches) IN
        /\ Len(y_train_batches) = n
        /\ BatchOffset(x_train_batches, n + 1) = Cols(x_train)
        /\ Cols(y_train) = Cols(x_train)
        /\ \A k \in 1..n :
            /\ Cols(x_train_batches[k]) = Cols(y_train_batches[k])
            /\ y_train_batches[k] = MatMul(T, x_train_batches[k])
            /\ \A c \in 1..Cols(x_train_batches[k]) :
                LET j == BatchOffset(x_train_batches, k) + c
                IN  /\ Column(x_train_batches[k], c) = Column(x_train, j)
                    /\ Column(y_train_batches[k], c) = Column(y_train, j)

\* the loop has read a mini-batch of a training set with non-zero labels,
\* cut into several mini-batches
C10_Witness ==
    /\ mode = "linear" /\ pc = "batch" /\ i >= 1
    /\ Len(x_train_batches) >= 2
    /\ y_train # ZeroMat(Rows(y_train), Cols(y_train))
    /\ x_train_batches[1] # x_train_batches[2]

\* C11: W and W0 change across epochs, not across mini-batches: while the
\* mini-batches of an epoch are processed W and W0 are the weights the epoch
\* started with, and each is assigned once per epoch, after the epoch's last
\* mini-batch
C11_WeightsStepOncePerEpoch ==
    /\ [](pc = "batch" => W = W_done /\ W0 = W0_done /\ nW = epoch /\ nW0 = epoch)
    /\ [][/\ (pc = "batch" /\ i < BatchesPerEpoch) => (W' = W /\ W0' = W0)
          /\ (W' # W \/ nW' # nW) =>
                 /\ pc = "batch" /\ i = BatchesPerEpoch
                 /\ nW = epoch /\ nW' = nW + 1
          /\ (W0' # W0 \/ nW0' # nW0) =>
                 /\ pc \in {"batch", "updateW0"} /\ i = BatchesPerEpoch
                 /\ nW0 = epoch /\ nW0' = nW0 + 1 /\ nW' = nW0']_vars

\* the last mini-batch of the second epoch of the linear experiment has been
\* processed, with non-zero deltas waiting, after a first epoch that moved W0
C11_Witness ==
    /\ mode = "linear" /\ pc = "batch" /\ epoch = 1
    /\ i = Len(x_train_batches) /\ i >= 2
    /\ delta_W # ZeroMat(Rows(W), Cols(W))
    /\ delta_W0 # ZeroMat(Rows(W0), Cols(W0))
    /\ W0 # hist[1].W0

RECURSIVE LinEpochSums(_, _, _, _, _, _)
\* the sums of 0.5 * ||e||^2, e h^T and (B e) x^T over the first k mini-batches
\* of the linear experiment, at the weights Wm, W0m
LinEpochSums(Wm, W0m, Bm, xb, yb, k) ==
    IF k = 0
    THEN [loss |-> Zero, dW |-> ZeroMat(Rows(Wm), Cols(Wm)),
          dW0 |-> ZeroMat(Rows(W0m), Cols(W0m)), n |-> 0]
    ELSE LET before == LinEpochSums(Wm, W0m, Bm, xb, yb, k - 1)
             st == LinBatchStep(Wm, W0m, Bm, xb[k], yb[k])
         IN  [loss |-> RAdd(before.loss, st.loss), dW |-> MatAdd(before.dW, st.dW),
              dW0 |-> MatAdd(before.dW0, st.dW0), n |-> before.n + Cols(xb[k])]

RECURSIVE NlEpochSums(_, _, _, _, _)
\* the same sums over the first k mini-batches the loader yields in the order
\* ord, for the non-linear experiment
NlEpochSums(Wm, W0m, Bm, ord, k) ==
    IF k = 0
    THEN [loss |-> Zero, dW |-> ZeroMat(Rows(Wm), Cols(Wm)),
          dW0 |-> ZeroMat(Rows(W0m), Cols(W0m)), n |-> 0]
    ELSE LET before == NlEpochSums(Wm, W0m, Bm, ord, k - 1)
             idx == LoaderBatch(ord, k - 1)
             st == NlBatchStep(Wm, W0m, Bm, RowTake(images, idx),
                               OneHotT(RowTake(labels, idx)))
         IN  [loss |-> RAdd(before.loss, st.loss), dW |-> MatAdd(before.dW, st.dW),
              dW0 |-> MatAdd(before.dW0, st.dW0), n |-> before.n + st.n]

\* C12: the accumulators start every epoch at zero: after i mini-batches of
\* an epoch, loss, delta_W and delta_W0 are the sums over these i mini-batches
\* alone, taken at the weights the epoch started with; the loss is not
\* negative; nothing of an earlier epoch is in them
C12_AccumulatorsPerEpoch ==
    pc = "batch" =>
        LET sums == IF mode = "linear"
                    THEN LinEpochSums(W, W0, B, x_train_batches, y_train_batches, i)
                    ELSE NlEpochSums(W, W0, B, order, i)
        IN  /\ loss = sums.loss
            /\ delta_W = sums.dW
            /\ delta_W0 = sums.dW0
            /\ mode = "nonlinear" => size = sums.n
            /\ loss[1] >= 0

\* the second epoch of the non-linear experiment has processed all its
\* mini-batches, after a first epoch with non-zero loss and non-zero steps
C12_Witness ==
    /\ mode = "nonlinear" /\ pc = "batch" /\ epoch = 1
    /\ i = LoaderLen(Len(images)) /\ i >= 2
    /\ hist[1].loss # Zero /\ loss # Zero /\ loss # hist[1].loss
    /\ W # hist[1].W /\ W0 # hist[1].W0
    /\ delta_W # ZeroMat(Rows(W), Cols(W))

=============================================================================
